---- MODULE Spec2Model ----
(***************************************************************************)
(* Model of scripts/risk_library: StockDataFetcher (data_loader.py), the   *)
(* return-derivation pipeline, and RiskMetrics (risk_metrics.py), the      *)
(* risk-metrics engine.                                                    *)
(*                                                                         *)
(* Numbers.  The code computes in IEEE doubles.  The model computes in     *)
(* exact rationals extended with NaN, +inf and -inf, so that a division by *)
(* zero gives what numpy/pandas give (inf or NaN, never an exception) and  *)
(* an equality of the model is an equality up to rounding in the code.     *)
(* A square root is kept symbolic: Sqrt(x) is the record of its radicand.  *)
(***************************************************************************)
EXTENDS Integers, Sequences, FiniteSets, TLC

\* ------------------------------------------------------------------ floats

NaN == [k |-> "nan", n |-> 0, d |-> 1]
PosInf == [k |-> "inf", n |-> 1, d |-> 1]
NegInf == [k |-> "inf", n |-> -1, d |-> 1]

Abs(x) == IF x < 0 THEN -x ELSE x

RECURSIVE GCD(_, _)
GCD(a, b) == IF b = 0 THEN a ELSE GCD(b, a % b)

\* The rational n/d (d # 0) in lowest terms with a positive denominator.
R(n, d) ==
    LET s == IF d < 0 THEN -1 ELSE 1
        g == GCD(Abs(n), Abs(d))
    IN  [k |-> "num", n |-> (s * n) \div g, d |-> (s * d) \div g]

Zero == R(0, 1)
One == R(1, 1)

IsNaN(a) == a.k = "nan"
IsNum(a) == a.k = "num"
IsInf(a) == a.k = "inf"
Sign(a) == IF a.n > 0 THEN 1 ELSE IF a.n < 0 THEN -1 ELSE 0
Inf(s) == IF s > 0 THEN PosInf ELSE NegInf

FNeg(a) == IF IsNum(a) THEN R(-a.n, a.d) ELSE IF IsInf(a) THEN Inf(-a.n) ELSE NaN

FAdd(a, b) ==
    IF IsNaN(a) \/ IsNaN(b) THEN NaN
    ELSE IF IsInf(a) /\ IsInf(b) THEN (IF a.n = b.n THEN a ELSE NaN)
    ELSE IF IsInf(a) THEN a
    ELSE IF IsInf(b) THEN b
    ELSE R(a.n * b.d + b.n * a.d, a.d * b.d)

FSub(a, b) == FAdd(a, FNeg(b))

FMul(a, b) ==
    IF IsNaN(a) \/ IsNaN(b) THEN NaN
    ELSE IF IsInf(a) \/ IsInf(b)
         THEN (IF Sign(a) * Sign(b) = 0 THEN NaN ELSE Inf(Sign(a) * Sign(b)))
    ELSE R(a.n * b.n, a.d * b.d)

\* numpy/pandas float division: x/0 is +-inf, 0/0 is NaN, nothing is raised.
FDiv(a, b) ==
    IF IsNaN(a) \/ IsNaN(b) THEN NaN
    ELSE IF IsInf(b) THEN (IF IsInf(a) THEN NaN ELSE Zero)
    ELSE IF IsInf(a) THEN Inf(Sign(a) * (IF Sign(b) < 0 THEN -1 ELSE 1))
    ELSE IF b.n = 0 THEN (IF a.n = 0 THEN NaN ELSE Inf(Sign(a)))
    ELSE R(a.n * b.d, a.d * b.n)

\* a < b; false when either is NaN, as every IEEE comparison with NaN is.
FLt(a, b) ==
    IF IsNaN(a) \/ IsNaN(b) THEN FALSE
    ELSE IF IsInf(a) THEN a.n < 0 /\ ~(IsInf(b) /\ b.n < 0)
    ELSE IF IsInf(b) THEN b.n > 0
    ELSE a.n * b.d < b.n * a.d

FLe(a, b) == ~IsNaN(a) /\ ~IsNaN(b) /\ ~FLt(b, a)

\* The symbolic square root of x (np.sqrt, Series.std).
Sqrt(x) == [sqrt_of |-> x]

\* ------------------------------------------------------------- sequences

None == <<>>
Some(x) == <<x>>

\* How a call ends: normally with what it returns, or by raising.
Ok(out) == [status |-> "ok", out |-> out]
Raise(kind) == [status |-> kind, out |-> None]
Call(op, arg, res) == [op |-> op, arg |-> arg, status |-> res.status, out |-> res.out]

RECURSIVE FSum(_)
FSum(s) == IF s = <<>> THEN Zero ELSE FAdd(Head(s), FSum(Tail(s)))

Range(s) == {s[i] : i \in 1..Len(s)}

\* ---------------------------------------------------------------- bounds

\* Most dates a price table or the benchmark price series of the pipeline has.
MaxDates == 2
\* Most calls of fetch_data on one pipeline.
MaxFetches == 1
\* Most observations of a return series handed to RiskMetrics directly.
MaxObs == 3

Tickers == {"AAA", "BBB"}
BenchmarkTickers == {"IDX"}
\* Adjusted closing prices (positive), and a missing price.
Prices == {R(1, 1), R(2, 1)}
Cells == Prices \cup {NaN}
\* Daily returns of a series handed to RiskMetrics directly; two are a loss
\* of the whole value or more, as un-normalised weights can produce.
ReturnValues == {R(-3, 2), R(-1, 1), R(0, 1), R(1, 1)}
BenchmarkValues == {R(0, 1), R(1, 1)}
\* Entries of a weights argument: not normalised, 3 * (-1/2) is below -1.
WeightValues == {R(1, 1), R(3, 1)}

SeqsUpTo(S, n) == UNION {[1..m -> S] : m \in 0..n}

\* The ticker lists and the weights arguments a pipeline is configured with.
TickerLists == SeqsUpTo(Tickers, Cardinality(Tickers))
WeightLists == SeqsUpTo(WeightValues, Cardinality(Tickers))

\* ---------------------------------------------------------------- tables

\* A DataFrame: column labels, the date index, one row of cells per date.
\* A Series is [dates, vals].
NRows(t) == Len(t.dates)
HasCol(t, c) == \E j \in 1..Len(t.cols) : t.cols[j] = c
ColPos(t, c) == CHOOSE j \in 1..Len(t.cols) : t.cols[j] = c

\* DataFrame.ffill down each column: the last valid price so far, if any.
RECURSIVE Filled(_, _, _)
Filled(rows, i, j) ==
    IF ~IsNaN(rows[i][j]) \/ i = 1 THEN rows[i][j] ELSE Filled(rows, i - 1, j)

\* DataFrame.pct_change(): data / data.shift(1) - 1, where data is the frame
\* itself (fill_method=None, pandas 3) or the frame forward-filled
\* (fill_method="pad", the default up to pandas 2.x).  The first row has no
\* predecessor: shift() makes it NaN.
pct_change(t, fm) ==
    LET val(i, j) == IF fm = "pad" THEN Filled(t.rows, i, j) ELSE t.rows[i][j]
    IN  [t EXCEPT !.rows =
            [i \in 1..NRows(t) |->
                [j \in 1..Len(t.cols) |->
                    IF i = 1 THEN NaN
                    ELSE FSub(FDiv(val(i, j), val(i - 1, j)), One)]]]

RowComplete(row) == \A j \in 1..Len(row) : ~IsNaN(row[j])

RECURSIVE CompleteRows(_, _)
CompleteRows(rows, i) ==
    IF i > Len(rows) THEN <<>>
    ELSE (IF RowComplete(rows[i]) THEN <<i>> ELSE <<>>) \o CompleteRows(rows, i + 1)

\* dropna() forgotten: every row is kept, the first one too.
dropna_forgotten(t) == t

\* DataFrame.dropna(): the rows with no NaN cell, each with its date.
dropna(t) ==
    LET keep == CompleteRows(t.rows, 1)
    IN  [cols |-> t.cols,
         dates |-> [i \in 1..Len(keep) |-> t.dates[keep[i]]],
         rows |-> [i \in 1..Len(keep) |-> t.rows[keep[i]]]]

\* df[labels]: the columns looked up by label, in the order of labels.
SelectCols(t, labels) ==
    [cols |-> labels,
     dates |-> t.dates,
     rows |-> [i \in 1..NRows(t) |->
                 [k \in 1..Len(labels) |-> t.rows[i][ColPos(t, labels[k])]]]]

\* DataFrame.dot(vector): positional, column k times entry k, per date.
dot(t, w) ==
    [dates |-> t.dates,
     vals |-> [i \in 1..NRows(t) |->
                 FSum([k \in 1..Len(w) |-> FMul(t.rows[i][k], w[k])])]]

\* The product of 1 + vals[k] over the k <= i that are not NaN.
RECURSIVE CumProdAt(_, _)
CumProdAt(vals, i) ==
    IF i = 0 THEN One
    ELSE IF IsNaN(vals[i]) THEN CumProdAt(vals, i - 1)
    ELSE FMul(CumProdAt(vals, i - 1), FAdd(One, vals[i]))

\* (1 + series).cumprod(): the running product; a NaN stays NaN and is
\* skipped by the product.
cumprod1p(s) ==
    [s EXCEPT !.vals = [i \in 1..Len(s.vals) |->
                          IF IsNaN(s.vals[i]) THEN NaN ELSE CumProdAt(s.vals, i)]]

\* ------------------------------------------------- the price collaborator

\* yf.download(...): a frame whose columns are (price field, ticker) pairs
\* when the column index is a MultiIndex, else bare price fields.  Of the
\* price fields only Close is modelled.  The provider may drop or reorder
\* tickers, leave prices missing, or return nothing (the empty frame).
ColumnOrders(req) ==
    {c \in SeqsUpTo(req, Cardinality(req)) : \A i, j \in 1..Len(c) : i # j => c[i] # c[j]}

Frames(colseqs, maxDates) ==
    {[cols |-> c, dates |-> [i \in 1..n |-> i], rows |-> r] :
        <<c, n, r>> \in
            UNION {UNION {{<<c, n, r>> : r \in [1..n -> [1..Len(c) -> Cells]]} :
                            n \in (IF c = <<>> THEN {0} ELSE 0..maxDates)} :
                   c \in colseqs}}

Downloads(req, maxDates) ==
    {[multi |-> TRUE,
      frame |-> [f EXCEPT !.cols = [j \in 1..Len(f.cols) |->
                                      [field |-> "Close", ticker |-> f.cols[j]]]]] :
        f \in Frames(ColumnOrders(req), maxDates)}
    \cup
    {[multi |-> FALSE, frame |-> f] : f \in Frames({<<"Close">>}, maxDates)}

RECURSIVE FieldCols(_, _, _)
FieldCols(cols, field, j) ==
    IF j > Len(cols) THEN <<>>
    ELSE (IF cols[j].field = field THEN <<j>> ELSE <<>>) \o FieldCols(cols, field, j + 1)

\* frame.xs(field, axis=1, level=0): the columns of that price field, the
\* field level dropped, so that the ticker is the column label.
xs(frame, field) ==
    LET keep == FieldCols(frame.cols, field, 1)
    IN  [cols |-> [k \in 1..Len(keep) |-> frame.cols[keep[k]].ticker],
         dates |-> frame.dates,
         rows |-> [i \in 1..NRows(frame) |->
                     [k \in 1..Len(keep) |-> frame.rows[i][keep[k]]]]]

\* isinstance(frame.columns, pd.MultiIndex) and then xs('Close', ...)
CloseOf(raw) == IF raw.multi THEN xs(raw.frame, "Close") ELSE raw.frame

\* ------------------------------------------------------------ statistics

\* The series handed to the engine hold no NaN (the pipeline drops them), so
\* pandas' skipna never has anything to skip in mean, var and std.
Mean(v) == FDiv(FSum(v), R(Len(v), 1))

\* Covariance with divisor N - ddof; NaN when N - ddof <= 0.
Cov(x, y, ddof) ==
    IF Len(x) - ddof <= 0 THEN NaN
    ELSE LET mx == Mean(x)
             my == Mean(y)
         IN  FDiv(FSum([i \in 1..Len(x) |-> FMul(FSub(x[i], mx), FSub(y[i], my))]),
                  R(Len(x) - ddof, 1))

Var(x, ddof) == Cov(x, x, ddof)

RECURSIVE Insert(_, _)
Insert(x, s) ==
    IF s = <<>> THEN <<x>>
    ELSE IF FLe(x, Head(s)) THEN <<x>> \o s
    ELSE <<Head(s)>> \o Insert(x, Tail(s))

RECURSIVE Sorted(_)
Sorted(s) == IF s = <<>> THEN <<>> ELSE Insert(Head(s), Sorted(Tail(s)))

\* np.percentile(v, q), method "linear": the value at the virtual index
\* (N - 1) * q / 100 of the sorted sample, interpolated between neighbours.
\* NaN for an empty sample.
percentile(v, q) ==
    IF v = <<>> \/ (\E i \in 1..Len(v) : IsNaN(v[i])) \/ ~IsNum(q) THEN NaN
    ELSE LET s == Sorted(v)
             h == FDiv(FMul(R(Len(v) - 1, 1), q), R(100, 1))
             lo == h.n \div h.d
             frac == FSub(h, R(lo, 1))
         IN  IF frac.n = 0 THEN s[lo + 1]
             ELSE FAdd(s[lo + 1], FMul(frac, FSub(s[lo + 2], s[lo + 1])))

\* The greatest of the v[k], k <= i, that are not NaN; NaN if there is none.
RECURSIVE RunningMax(_, _)
RunningMax(v, i) ==
    IF i = 0 THEN NaN
    ELSE LET m == RunningMax(v, i - 1)
         IN  IF IsNaN(v[i]) THEN m
             ELSE IF IsNaN(m) \/ FLt(m, v[i]) THEN v[i] ELSE m

\* Series.cummax() at position i: the running maximum; a NaN stays NaN.
CumMaxAt(v, i) == IF IsNaN(v[i]) THEN NaN ELSE RunningMax(v, i)

\* Series.min(): the least value, NaN skipped; NaN when nothing is left.
RECURSIVE FMin(_)
FMin(v) ==
    IF v = <<>> THEN NaN
    ELSE LET m == FMin(Tail(v))
         IN  IF IsNaN(Head(v)) THEN m
             ELSE IF IsNaN(m) \/ FLt(Head(v), m) THEN Head(v) ELSE m

HasDate(s, d) == \E i \in 1..Len(s.dates) : s.dates[i] = d
AtDate(s, d) == s.vals[CHOOSE i \in 1..Len(s.dates) : s.dates[i] = d]

\* pd.concat([a, b], axis=1).dropna() of two series: the dates both have
\* with a value on both sides; column 0 is a, column 1 is b.
RECURSIVE AlignedFrom(_, _, _)
AlignedFrom(a, b, i) ==
    IF i > Len(a.dates) THEN <<>>
    ELSE (IF /\ HasDate(b, a.dates[i])
             /\ ~IsNaN(a.vals[i])
             /\ ~IsNaN(AtDate(b, a.dates[i]))
          THEN <<[d |-> a.dates[i], x |-> a.vals[i], y |-> AtDate(b, a.dates[i])]>>
          ELSE <<>>) \o AlignedFrom(a, b, i + 1)

aligned_data(a, b) == AlignedFrom(a, b, 1)
Col0(al) == [i \in 1..Len(al) |-> al[i].x]
Col1(al) == [i \in 1..Len(al) |-> al[i].y]

\* ------------------------------------------------------------ RiskMetrics

risk_free_rate == R(2, 100)
TradingDays == 252
\* compute_var's default confidence_level, and another the caller may pass.
DefaultConfidence == R(95, 100)
ConfidenceLevels == {DefaultConfidence, R(1, 2)}

\* compute_volatility: Series.std() (divisor N - 1) times sqrt(252).
volatility_of(p) == Ok(Sqrt(FMul(Var(p.vals, 1), R(TradingDays, 1))))

\* compute_var
var_of(p, confidence_level) ==
    Ok(percentile(p.vals, FMul(FSub(One, confidence_level), R(100, 1))))

\* compute_sharpe_ratio: excess / std, a float division: what it returns is
\* num / sqrt(over_sqrt), which is infinite or NaN when the variance is zero
\* and NaN when it is NaN.
sharpe_ratio_of(p) ==
    Ok([num |-> FSub(Mean(p.vals), FDiv(risk_free_rate, R(TradingDays, 1))),
        over_sqrt |-> Var(p.vals, 1)])

\* Whether num / sqrt(over_sqrt) is a finite number.
IsFiniteRatio(q) == IsNum(q.num) /\ IsNum(q.over_sqrt) /\ q.over_sqrt.n > 0

\* np.cov(x, y)[0, 1]: numpy's default estimator, divisor N - 1.
np_cov(x, y) == Cov(x, y, 1)
\* np.var(series): numpy passes ddof=0 on to Series.var, divisor N.
np_var(x) == Var(x, 0)

\* The benchmark check of line 32 left out: no benchmark, nothing aligned, NaN.
beta_of_unchecked(p, b) ==
    LET al == IF b = None THEN <<>> ELSE aligned_data(p, b[1])
    IN  Ok(FDiv(np_cov(Col0(al), Col1(al)), np_var(Col1(al))))

\* compute_beta: the ValueError of line 33 is the spec's BenchmarkRequired.
beta_of(p, b) ==
    IF b = None THEN Raise("BenchmarkRequired")
    ELSE LET al == aligned_data(p, b[1])
         IN  Ok(FDiv(np_cov(Col0(al), Col1(al)), np_var(Col1(al))))

\* compute_max_drawdown
max_drawdown_of(p) ==
    LET cum == cumprod1p(p).vals
        drawdown == [i \in 1..Len(cum) |->
                        FDiv(FSub(cum[i], CumMaxAt(cum, i)), CumMaxAt(cum, i))]
    IN  Ok(FMin(drawdown))

\* compute_tracking_error: the ValueError of line 55 is BenchmarkRequired.
tracking_error_of(p, b) ==
    IF b = None THEN Raise("BenchmarkRequired")
    ELSE LET al == aligned_data(p, b[1])
             diff == [i \in 1..Len(al) |-> FSub(al[i].x, al[i].y)]
         IN  Ok(Sqrt(FMul(Var(diff, 1), R(TradingDays, 1))))

\* DataFrame.cov() and DataFrame.var(): pandas' estimators, divisor N - 1.
pd_cov(x, y) == Cov(x, y, 1)
\* The variance taken with numpy's divisor N where the covariance has N - 1.
pd_var_population(x) == Var(x, 0)
pd_var(x) == Var(x, 1)

\* pd.concat([asset_returns_df, portfolio], axis=1).dropna(): the dates both
\* have on which no asset return is missing.
RECURSIVE AlignedRows(_, _, _)
AlignedRows(t, p, i) ==
    IF i > NRows(t) THEN <<>>
    ELSE (IF /\ HasDate(p, t.dates[i])
             /\ RowComplete(t.rows[i])
             /\ ~IsNaN(AtDate(p, t.dates[i]))
          THEN <<[row |-> t.rows[i], y |-> AtDate(p, t.dates[i])]>>
          ELSE <<>>) \o AlignedRows(t, p, i + 1)

\* compute_marginal_var: the ValueError of line 73 is the spec's
\* LengthMismatch.  One marginal VaR per column of the asset table.
marginal_var_of(p, t) ==
    IF NRows(t) # Len(p.vals) THEN Raise("LengthMismatch")
    ELSE LET al == AlignedRows(t, p, 1)
             py == [i \in 1..Len(al) |-> al[i].y]
             asset_betas == [j \in 1..Len(t.cols) |->
                                FDiv(pd_cov([i \in 1..Len(al) |-> al[i].row[j]], py),
                                     pd_var(py))]
             portfolio_var == var_of(p, DefaultConfidence).out
         IN  Ok([j \in 1..Len(t.cols) |-> FMul(asset_betas[j], portfolio_var)])

\* --------------------------------------------------------------- state

VARIABLES
    fetcher,            \* "absent" or "live": whether a StockDataFetcher exists
    tickers,            \* self.tickers
    weights,            \* self.weights
    benchmark_ticker,   \* self.benchmark_ticker (None or Some(ticker))
    data,               \* self.data (None or Some(table))
    benchmark_data,     \* self.benchmark_data
    benchmark_returns,  \* self.benchmark_returns
    fetches,            \* completed calls of fetch_data
    fill_method,        \* what pct_change() does with a missing price
    engine,             \* "absent" or "live": whether a RiskMetrics exists
    portfolio_returns,  \* RiskMetrics.portfolio_returns
    rm_benchmark_returns, \* RiskMetrics.benchmark_returns (None or Some(series))
    built_from,         \* the asset returns and weights the series was built from
    last                \* the last call: its name, what it was given (for
                        \* fetch_data: what the provider answered), how it
                        \* ended and what it returned

pipeline_vars ==
    <<fetcher, tickers, weights, benchmark_ticker, data, benchmark_data,
      benchmark_returns, fetches>>
engine_vars == <<engine, portfolio_returns, rm_benchmark_returns, built_from>>
vars == <<pipeline_vars, engine_vars, fill_method, last>>

\* ------------------------------------------------------ StockDataFetcher

\* __init__: `if weights:` is false for None and for the empty list; the
\* ValueError of line 26 is the spec's ConfigurationError.
init_weights(tk, wArg) ==
    IF wArg # None /\ wArg[1] # <<>>
    THEN IF Len(wArg[1]) # Len(tk)
         THEN Raise("ConfigurationError")
         ELSE Ok(wArg[1])
    ELSE Ok([i \in 1..Len(tk) |-> R(1, Len(tk))])

\* `if self.data is None or self.data.empty`: an empty table taken for no fetch.
daily_returns_of_empty_is_unfetched(d, fm) ==
    IF d = None \/ NRows(d[1]) = 0 THEN Raise("NotFetched")
    ELSE Ok(dropna(pct_change(d[1], fm)))

\* compute_daily_returns: the ValueError of line 55 is the spec's NotFetched.
daily_returns_of(d, fm) ==
    IF d = None THEN Raise("NotFetched") ELSE Ok(dropna(pct_change(d[1], fm)))

RECURSIVE tickers_in_data(_, _)
tickers_in_data(tk, t) ==
    IF tk = <<>> THEN <<>>
    ELSE (IF HasCol(t, Head(tk)) THEN <<Head(tk)>> ELSE <<>>)
         \o tickers_in_data(Tail(tk), t)

\* The count check of line 72 left out: the weights are cut to the tickers found.
portfolio_returns_of_truncating(tk, w, d, br, fm) ==
    LET daily == daily_returns_of(d, fm)
        found == tickers_in_data(tk, daily.out)
    IN  IF daily.status # "ok" THEN daily
        ELSE IF found = <<>> THEN Raise("NoMatchingAssets")
        ELSE Ok([portfolio |-> dot(SelectCols(daily.out, found),
                                   SubSeq(w, 1, Len(found))),
                 benchmark |-> br])

\* compute_portfolio_returns: the ValueErrors of lines 70 and 73 are the
\* spec's NoMatchingAssets and WeightCountMismatch.
portfolio_returns_of(tk, w, d, br, fm) ==
    LET daily == daily_returns_of(d, fm)
        found == tickers_in_data(tk, daily.out)
    IN  IF daily.status # "ok" THEN daily
        ELSE IF found = <<>> THEN Raise("NoMatchingAssets")
        ELSE IF Len(found) # Len(w) THEN Raise("WeightCountMismatch")
        ELSE Ok([portfolio |-> dot(SelectCols(daily.out, found), w),
                 benchmark |-> br])

\* compute_cumulative_returns
cumulative_returns_of(tk, w, d, br, fm) ==
    LET pr == portfolio_returns_of(tk, w, d, br, fm)
    IN  IF pr.status # "ok" THEN pr ELSE Ok(cumprod1p(pr.out.portfolio))

StockDataFetcher_init ==
    /\ fetcher = "absent"
    /\ \E tk \in TickerLists, bt \in {None} \cup {Some(b) : b \in BenchmarkTickers},
          wArg \in {None} \cup {Some(w) : w \in WeightLists} :
        LET res == init_weights(tk, wArg)
        IN  /\ last' = Call("__init__", [tickers |-> tk, weights |-> wArg],
                             [res EXCEPT !.out = None])
            /\ IF res.status = "ok"
               THEN /\ fetcher' = "live"
                    /\ tickers' = tk
                    /\ weights' = res.out
                    /\ benchmark_ticker' = bt
               ELSE UNCHANGED <<fetcher, tickers, weights, benchmark_ticker>>
    /\ UNCHANGED <<data, benchmark_data, benchmark_returns, fetches>>
    /\ UNCHANGED <<engine_vars, fill_method>>

\* fetch_data: nothing in it looks at what the provider returned.
fetch_data ==
    /\ fetcher = "live"
    /\ fetches < MaxFetches
    /\ \E raw \in Downloads(Range(tickers), MaxDates) :
        /\ data' = Some(CloseOf(raw))
        /\ IF benchmark_ticker # None
           THEN \E braw \in Downloads({benchmark_ticker[1]}, MaxDates) :
                    /\ benchmark_data' = Some(CloseOf(braw))
                    /\ benchmark_returns' =
                           Some(dropna(pct_change(CloseOf(braw), fill_method)))
                    /\ last' = Call("fetch_data",
                                    [prices |-> raw.frame, benchmark |-> Some(braw.frame)],
                                    Ok(CloseOf(raw)))
           ELSE /\ UNCHANGED <<benchmark_data, benchmark_returns>>
                /\ last' = Call("fetch_data",
                                [prices |-> raw.frame, benchmark |-> None],
                                Ok(CloseOf(raw)))
    /\ fetches' = fetches + 1
    /\ UNCHANGED <<fetcher, tickers, weights, benchmark_ticker>>
    /\ UNCHANGED <<engine_vars, fill_method>>

compute_daily_returns ==
    /\ fetcher = "live"
    /\ last' = Call("compute_daily_returns", None, daily_returns_of(data, fill_method))
    /\ UNCHANGED <<pipeline_vars, engine_vars, fill_method>>

compute_portfolio_returns ==
    /\ fetcher = "live"
    /\ last' = Call("compute_portfolio_returns", None,
                    portfolio_returns_of(tickers, weights, data, benchmark_returns,
                                         fill_method))
    /\ UNCHANGED <<pipeline_vars, engine_vars, fill_method>>

compute_cumulative_returns ==
    /\ fetcher = "live"
    /\ last' = Call("compute_cumulative_returns", None,
                    cumulative_returns_of(tickers, weights, data, benchmark_returns,
                                          fill_method))
    /\ UNCHANGED <<pipeline_vars, engine_vars, fill_method>>

Init ==
    /\ fetcher = "absent"
    /\ tickers = <<>>
    /\ weights = <<>>
    /\ benchmark_ticker = None
    /\ data = None
    /\ benchmark_data = None
    /\ benchmark_returns = None
    /\ fetches = 0
    /\ fill_method \in {"pad", "none"}
    /\ engine = "absent"
    /\ portfolio_returns = [dates |-> <<>>, vals |-> <<>>]
    /\ rm_benchmark_returns = None
    /\ built_from = None
    /\ last = Call("none", None, Ok(None))

\* ------------------------------------------------------ RiskMetrics calls

SeriesOver(S, n, off) ==
    {[dates |-> [i \in 1..Len(v) |-> i + off], vals |-> v] : v \in SeqsUpTo(S, n)}

\* The portfolio return series, and the benchmark return series (whose dates
\* may differ from the portfolio's), an engine is constructed with directly.
PortfolioSeries == SeriesOver(ReturnValues, MaxObs, 0)
BenchmarkSeries == SeriesOver(BenchmarkValues, MaxObs, 0) \cup SeriesOver(BenchmarkValues, MaxObs, 1)

\* The per-asset return tables compute_marginal_var is called with, besides
\* the one the portfolio series was built from: one asset, every length.
AssetTables ==
    {[cols |-> <<"AAA">>, dates |-> s.dates, rows |-> [i \in 1..Len(s.vals) |-> <<s.vals[i]>>]] :
        s \in SeriesOver({One}, MaxObs, 0)}

\* RiskMetrics.__init__ with any series.
RiskMetrics_init ==
    /\ engine = "absent"
    /\ \E p \in PortfolioSeries :
        \E b \in {None, Some(p)} \cup {Some(x) : x \in BenchmarkSeries} :
            /\ portfolio_returns' = p
            /\ rm_benchmark_returns' = b
    /\ engine' = "live"
    /\ built_from' = None
    /\ last' = Call("RiskMetrics", None, Ok(None))
    /\ UNCHANGED <<pipeline_vars, fill_method>>

\* RiskMetrics.__init__ with what a pipeline without benchmark returns from
\* compute_portfolio_returns after its fetch.
RiskMetrics_from_pipeline ==
    /\ engine = "absent"
    /\ \E tk \in TickerLists, wArg \in {None} \cup {Some(w) : w \in WeightLists} :
        \E raw \in Downloads(Range(tk), MaxObs) :
            LET w == init_weights(tk, wArg)
                d == Some(CloseOf(raw))
                daily == daily_returns_of(d, fill_method)
                pr == portfolio_returns_of(tk, w.out, d, None, fill_method)
            IN  /\ w.status = "ok"
                /\ pr.status = "ok"
                /\ portfolio_returns' = pr.out.portfolio
                /\ rm_benchmark_returns' = pr.out.benchmark
                /\ built_from' = Some([assets |-> SelectCols(daily.out, tickers_in_data(tk, daily.out)),
                                       weights |-> w.out])
    /\ engine' = "live"
    /\ last' = Call("RiskMetrics", None, Ok(None))
    /\ UNCHANGED <<pipeline_vars, fill_method>>

compute_volatility ==
    /\ engine = "live"
    /\ last' = Call("compute_volatility", None, volatility_of(portfolio_returns))
    /\ UNCHANGED <<pipeline_vars, engine_vars, fill_method>>

compute_var ==
    /\ engine = "live"
    /\ \E c \in ConfidenceLevels :
        last' = Call("compute_var", c, var_of(portfolio_returns, c))
    /\ UNCHANGED <<pipeline_vars, engine_vars, fill_method>>

compute_sharpe_ratio ==
    /\ engine = "live"
    /\ last' = Call("compute_sharpe_ratio", None, sharpe_ratio_of(portfolio_returns))
    /\ UNCHANGED <<pipeline_vars, engine_vars, fill_method>>

compute_beta ==
    /\ engine = "live"
    /\ last' = Call("compute_beta", None, beta_of(portfolio_returns, rm_benchmark_returns))
    /\ UNCHANGED <<pipeline_vars, engine_vars, fill_method>>

compute_max_drawdown ==
    /\ engine = "live"
    /\ last' = Call("compute_max_drawdown", None, max_drawdown_of(portfolio_returns))
    /\ UNCHANGED <<pipeline_vars, engine_vars, fill_method>>

compute_tracking_error ==
    /\ engine = "live"
    /\ last' = Call("compute_tracking_error", None,
                    tracking_error_of(portfolio_returns, rm_benchmark_returns))
    /\ UNCHANGED <<pipeline_vars, engine_vars, fill_method>>

compute_marginal_var ==
    /\ engine = "live"
    /\ \E t \in AssetTables \cup {built_from[i].assets : i \in 1..Len(built_from)} :
        last' = Call("compute_marginal_var", t, marginal_var_of(portfolio_returns, t))
    /\ UNCHANGED <<pipeline_vars, engine_vars, fill_method>>

NextPipeline ==
    \/ StockDataFetcher_init
    \/ fetch_data
    \/ compute_daily_returns
    \/ compute_portfolio_returns
    \/ compute_cumulative_returns

SpecPipeline == Init /\ [][NextPipeline]_vars

NextEngine ==
    \/ RiskMetrics_init
    \/ RiskMetrics_from_pipeline
    \/ compute_volatility
    \/ compute_var
    \/ compute_sharpe_ratio
    \/ compute_beta
    \/ compute_max_drawdown
    \/ compute_tracking_error
    \/ compute_marginal_var

SpecEngine == Init /\ [][NextEngine]_vars

\* ----------------------------------------------------------------- claims

ReturnOps ==
    {"compute_daily_returns", "compute_portfolio_returns", "compute_cumulative_returns"}

\* C1: constructing the pipeline with a weights argument whose length differs
\* from the number of configured tickers, the empty one included, fails with
\* ConfigurationError and produces no pipeline.  (Violated: the empty list is
\* taken for "no weights" and the pipeline is built with equal weights.)
C1_MismatchedWeightsAreRejected ==
    (/\ last.op = "__init__"
     /\ last.arg.weights # None
     /\ Len(last.arg.weights[1]) # Len(last.arg.tickers))
    => (last.status = "ConfigurationError" /\ fetcher = "absent")

\* The configured tickers that are columns of the fetched price table.
Present == tickers_in_data(tickers, data[1])

\* The return of the column labelled c at the i-th date of the daily returns.
ReturnOf(c, i) ==
    LET daily == dropna(pct_change(data[1], fill_method))
    IN  daily.rows[i][ColPos(daily, c)]

\* C2: after a fetch, compute_portfolio_returns fails with NoMatchingAssets
\* when no configured ticker is a column of the fetched table and with
\* WeightCountMismatch when the number that are differs from the number of
\* weights; so when it returns, every configured ticker is a column, and the
\* value at each date is the sum over i of weight i times the return of the
\* i-th configured ticker, whatever the order of the table's columns.
C2_PortfolioOverAllTickersOrFailure ==
    (last.op = "compute_portfolio_returns" /\ data # None)
    => /\ Len(Present) = 0 => last.status = "NoMatchingAssets"
       /\ (Len(Present) # 0 /\ Len(Present) # Len(weights))
              => last.status = "WeightCountMismatch"
       /\ last.status = "ok"
              => /\ \A i \in 1..Len(tickers) : HasCol(data[1], tickers[i])
                 /\ Len(weights) = Len(tickers)
                 /\ \A i \in 1..Len(last.out.portfolio.vals) :
                        last.out.portfolio.vals[i] =
                            FSum([k \in 1..Len(tickers) |->
                                     FMul(weights[k], ReturnOf(tickers[k], i))])

\* C2's case: the provider dropped one of two configured tickers, and the
\* call failed with WeightCountMismatch.
C2_Witness ==
    /\ last.op = "compute_portfolio_returns"
    /\ last.status = "WeightCountMismatch"
    /\ Len(tickers) = 2
    /\ Len(Present) = 1
    /\ NRows(data[1]) >= 2

\* C3: a call of compute_daily_returns, compute_portfolio_returns or
\* compute_cumulative_returns made before any fetch has completed fails with
\* NotFetched and changes nothing the pipeline stores; made after one, it
\* does not fail with NotFetched.
C3_NotFetchedExactlyBeforeFetch ==
    [][(last'.op \in ReturnOps)
        => /\ fetches = 0 => (last'.status = "NotFetched" /\ UNCHANGED pipeline_vars)
           /\ fetches > 0 => last'.status # "NotFetched"]_vars

\* C3's case: compute_cumulative_returns called on a pipeline never fetched.
C3_Witness ==
    /\ fetcher = "live"
    /\ fetches = 0
    /\ last.op = "compute_cumulative_returns"
    /\ last.status = "NotFetched"
    /\ data = None

\* The provider returned nothing for identifier id: the stored table has no
\* column of it, or no price in that column.
NoDataFor(t, id) ==
    \/ ~HasCol(t, id)
    \/ \A i \in 1..NRows(t) : IsNaN(t.rows[i][ColPos(t, id)])

\* C4: fetch_data fails with DataUnavailable when the provider returns no
\* data for some requested identifier, a configured ticker or the benchmark;
\* it does not complete, storing an empty or partial table.  (Violated:
\* fetch_data stores whatever comes back and returns.)
C4_FetchFailsWithoutData ==
    (/\ last.op = "fetch_data"
     /\ \/ \E i \in 1..Len(tickers) : NoDataFor(data[1], tickers[i])
        \/ /\ benchmark_ticker # None
           /\ NoDataFor(benchmark_data[1], benchmark_ticker[1]))
    => last.status = "DataUnavailable"

\* C5: on an engine without benchmark, compute_beta and
\* compute_tracking_error fail with BenchmarkRequired, having computed
\* nothing, whatever the portfolio series; compute_volatility, compute_var,
\* compute_sharpe_ratio and compute_max_drawdown return normally.
C5_BenchmarkRequired ==
    (engine = "live" /\ rm_benchmark_returns = None)
    => /\ last.op \in {"compute_beta", "compute_tracking_error"}
              => (last.status = "BenchmarkRequired" /\ last.out = None)
       /\ last.op \in {"compute_volatility", "compute_var", "compute_sharpe_ratio",
                       "compute_max_drawdown"}
              => last.status = "ok"

\* C5's case: beta asked of a benchmark-less engine holding two observations.
C5_Witness ==
    /\ engine = "live"
    /\ rm_benchmark_returns = None
    /\ Len(portfolio_returns.vals) >= 2
    /\ last.op = "compute_beta"
    /\ last.status = "BenchmarkRequired"

\* C6: with a benchmark series identical to a portfolio series of at least 2
\* observations and non-zero variance, compute_beta returns 1.  (Violated:
\* the covariance has divisor N - 1 and the variance divisor N, so it
\* returns N / (N - 1).)
C6_BetaOfSelfIsOne ==
    (/\ last.op = "compute_beta"
     /\ rm_benchmark_returns = Some(portfolio_returns)
     /\ Len(portfolio_returns.vals) >= 2
     /\ Var(portfolio_returns.vals, 0) # Zero)
    => (last.status = "ok" /\ last.out = One)

\* C7: compute_max_drawdown returns d with -1 <= d <= 0 for every portfolio
\* return series, those with a daily return below -1 included.  Stated for
\* the series with an observation whose drawdown is a number.  (Violated: a
\* return below -1 makes the growth curve negative.)
C7_DrawdownWithinBounds ==
    (/\ last.op = "compute_max_drawdown"
     /\ Len(portfolio_returns.vals) >= 1
     /\ ~IsNaN(last.out))
    => (FLe(R(-1, 1), last.out) /\ FLe(last.out, Zero))

NoMissingPrice(t) == \A i \in 1..NRows(t) : RowComplete(t.rows[i])

\* The return table has exactly the dates of the price table but the first.
AllButFirstDate(prices, returns) ==
    /\ NRows(returns) = NRows(prices) - 1
    /\ returns.dates = Tail(prices.dates)

\* Every date of the return table is a date of the price table after the first.
OnlyLaterDates(prices, returns) ==
    /\ \A i \in 1..NRows(returns) :
           \E k \in 2..NRows(prices) : returns.dates[i] = prices.dates[k]
    /\ NRows(returns) <= (IF NRows(prices) = 0 THEN 0 ELSE NRows(prices) - 1)

\* C8 as claimed: for any fetched price table and benchmark price series
\* with N dates the derived return series has exactly N - 1 rows, every date
\* but the first.  Stated for N >= 1.  (Violated: a date on which a return
\* is undefined, a price being missing, is dropped as well.)
C8_ReturnsHaveAllButFirstDate ==
    /\ (last.op = "compute_daily_returns" /\ last.status = "ok" /\ NRows(data[1]) >= 1)
           => AllButFirstDate(data[1], last.out)
    /\ (last.op = "fetch_data" /\ benchmark_ticker # None /\ NRows(benchmark_data[1]) >= 1)
           => AllButFirstDate(benchmark_data[1], benchmark_returns[1])

\* C8 amended: the derived return series never holds the first date and
\* holds only later dates of the price series, so at most N - 1 rows; with
\* N >= 1 and no price missing it holds every date but the first, N - 1 rows.
C8_ReturnsHaveLaterDatesOnly ==
    /\ (last.op = "compute_daily_returns" /\ last.status = "ok")
           => /\ OnlyLaterDates(data[1], last.out)
              /\ (NRows(data[1]) >= 1 /\ NoMissingPrice(data[1]))
                     => AllButFirstDate(data[1], last.out)
    /\ (last.op = "fetch_data" /\ benchmark_ticker # None)
           => /\ OnlyLaterDates(benchmark_data[1], benchmark_returns[1])
              /\ (NRows(benchmark_data[1]) >= 1 /\ NoMissingPrice(benchmark_data[1]))
                     => AllButFirstDate(benchmark_data[1], benchmark_returns[1])

\* C8's case: two assets priced on every one of at least two dates, and the
\* daily returns computed.
C8_Witness ==
    /\ last.op = "compute_daily_returns"
    /\ last.status = "ok"
    /\ Len(data[1].cols) = 2
    /\ NRows(data[1]) >= 2
    /\ NoMissingPrice(data[1])
    /\ NRows(last.out) = NRows(data[1]) - 1

\* The call of compute_marginal_var was given the asset returns the
\* portfolio series was built from, and that series has a non-zero variance.
RoundTrip ==
    /\ last.op = "compute_marginal_var"
    /\ built_from # None
    /\ last.arg = built_from[1].assets
    /\ IsNum(Var(portfolio_returns.vals, 1))
    /\ Var(portfolio_returns.vals, 1) # Zero

\* C9: when compute_marginal_var is given the per-asset returns the
\* portfolio series was built from (portfolio = sum of weight i times asset
\* i, same dates, variance non-zero), the sum over the assets of weight i
\* times marginal VaR i equals compute_var at the default confidence.
C9_WeightedMarginalVarsSumToVar ==
    RoundTrip
    => /\ last.status = "ok"
       /\ FSum([j \in 1..Len(last.out) |->
                   FMul(built_from[1].weights[j], last.out[j])])
          = var_of(portfolio_returns, DefaultConfidence).out

\* C9's case: a round trip over two assets with different weights and a
\* VaR that is not zero.
C9_Witness ==
    /\ RoundTrip
    /\ Len(built_from[1].weights) = 2
    /\ built_from[1].weights[1] # built_from[1].weights[2]
    /\ last.out[1] # last.out[2]
    /\ var_of(portfolio_returns, DefaultConfidence).out # Zero

\* C10: compute_sharpe_ratio fails with InsufficientData when the standard
\* deviation of the portfolio series is zero, and what it returns is never
\* infinite or NaN.  Stated for the series of at least 2 observations.
\* (Violated: the division by zero is carried out and its result returned.)
C10_SharpeFailsOnZeroDeviation ==
    (last.op = "compute_sharpe_ratio" /\ Len(portfolio_returns.vals) >= 2)
    => /\ Var(portfolio_returns.vals, 1) = Zero => last.status = "InsufficientData"
       /\ last.status = "ok" => IsFiniteRatio(last.out)

====
